---- MODULE Spec2Model ----
(***************************************************************************)
(* Verification model of the Algorand multi-token dashboard:               *)
(*   - SendAssetModal.handleSend    (validation, opt-in pre-check, retry)  *)
(*   - PortfolioDashboard.loadPortfolio (account, metadata, indexer steps) *)
(*   - CreateTokenModal.handleCreate                                       *)
(* Every asynchronous handler is one process per invocation; an action is  *)
(* the synchronous stretch of code between two awaits.                     *)
(***************************************************************************)
EXTENDS Integers, Sequences, FiniteSets, TLC

\* Bounds of the model.
MaxSends == 2       \* invocations of handleSend
MaxAssets == 2      \* asset entries in one account response
MaxLoads == 2       \* invocations of loadPortfolio
MaxTxns == 2        \* records in one indexer response
MaxCreates == 1     \* invocations of handleCreate

\* while (attempt < 2)
MaxAttempts == 2

(***************************************************************************)
(* JavaScript values.  A number is hi * 2^53 + v (plus one half for kind   *)
(* "frac"); hi > 0 only for integers beyond the 53-bit mantissa.           *)
(***************************************************************************)
Undefined == [t |-> "undefined", k |-> "", hi |-> 0, v |-> 0, s |-> ""]
Null == [t |-> "null", k |-> "", hi |-> 0, v |-> 0, s |-> ""]
Num(n) == [t |-> "number", k |-> "int", hi |-> 0, v |-> n, s |-> ""]
NumHi(h, n) == [t |-> "number", k |-> "int", hi |-> h, v |-> n, s |-> ""]
Frac(n) == [t |-> "number", k |-> "frac", hi |-> 0, v |-> n, s |-> ""]
NaN == [t |-> "number", k |-> "nan", hi |-> 0, v |-> 0, s |-> ""]
Big(h, n) == [t |-> "bigint", k |-> "int", hi |-> h, v |-> n, s |-> ""]
Str(x) == [t |-> "string", k |-> "", hi |-> 0, v |-> 0, s |-> x]

\* a ?? b
Nullish(a) == a.t \in {"undefined", "null"}
Coalesce(a, b) == IF Nullish(a) THEN b ELSE a

\* Number("...") for the strings the model uses (StringToNumber of ECMAScript).
StringToNumber(x) ==
  CASE x = "" -> Num(0)
    [] x = "0" -> Num(0)
    [] x = "3" -> Num(3)
    [] x = "5" -> Num(5)
    [] x = "7" -> Num(7)
    [] x = "10" -> Num(10)
    [] x = "1000000" -> Num(1000000)
    [] x = "-3" -> Num(0 - 3)
    [] x = "1.5" -> Frac(1)
    [] OTHER -> NaN

\* Number(bigint): the nearest double, ties to the even mantissa.  Below 2^53
\* every integer is exact; in [2^53, 2^54) only even integers are doubles.
RoundToDouble(h, n) ==
  IF h = 0 \/ n % 2 = 0 THEN n
  ELSE IF (n - 1) % 4 = 0 THEN n - 1 ELSE n + 1

\* Number(x)
ToNumber(x) ==
  CASE x.t = "number" -> x
    [] x.t = "bigint" -> NumHi(x.hi, RoundToDouble(x.hi, x.v))
    [] x.t = "string" -> StringToNumber(x.s)
    [] x.t = "null" -> Num(0)
    [] OTHER -> NaN

\* Number.isFinite(x) for a number x
IsFinite(x) == x.t = "number" /\ x.k # "nan"

\* a === b for two numbers
NumStrictEq(a, b) == a.k # "nan" /\ b.k # "nan" /\ a = b

\* a <= 0 for a number
NumLeqZero(a) == a.k = "int" /\ a.hi = 0 /\ a.v <= 0

\* BigInt(number) throws a RangeError unless the number is an integer.
BigIntOfNumberThrows(a) == a.k # "int"

\* BigInt(string) throws a SyntaxError unless the string is an integer literal.
BigIntOfStringThrows(x) == StringToNumber(x).k # "int"

(***************************************************************************)
(* Error texts, as word sequences: String(err).                            *)
(***************************************************************************)
ToLowerWord(w) ==
  CASE w = "TXN" -> "txn"
    [] w = "DEAD" -> "dead"
    [] w = "Must" -> "must"
    [] w = "OptIn" -> "optin"
    [] OTHER -> w

\* s.toLowerCase()
ToLowerCase(text) == [i \in 1..Len(text) |-> ToLowerWord(text[i])]

\* s.includes(pat)
Includes(text, pat) ==
  \E i \in 1..(Len(text) - Len(pat) + 1) : SubSeq(text, i, i + Len(pat) - 1) = pat

\* What assetTransfer can reject with.  text is String(err); dead and optin
\* are ghost fields: whether the text, lower-cased, contains "txn dead", and
\* whether the text as it stands contains "must optin".
Rejection(text, dead, optin) == [text |-> text, dead |-> dead, optin |-> optin]

Rejections ==
  { Rejection(<<"Error:", "txn", "dead">>, TRUE, FALSE),
    Rejection(<<"Error:", "TXN", "DEAD">>, TRUE, FALSE),
    Rejection(<<"Error:", "must", "optin">>, FALSE, TRUE),
    Rejection(<<"Error:", "Must", "OptIn">>, FALSE, FALSE),
    Rejection(<<"Error:", "rejected">>, FALSE, FALSE) }

\* What BigInt() throws on a value that is no integer.
ConversionError == Rejection(<<"SyntaxError:", "Cannot", "convert">>, FALSE, FALSE)

(***************************************************************************)
(* Strings whose characters matter (transaction types): character          *)
(* sequences, or NoStr for an absent property.                             *)
(***************************************************************************)
LowerChars == <<"a", "c", "e", "f", "g", "k", "l", "m", "n", "p", "r", "s", "t", "x", "y">>
UpperChars == <<"A", "C", "E", "F", "G", "K", "L", "M", "N", "P", "R", "S", "T", "X", "Y">>

ToLowerChar(c) ==
  IF \E i \in 1..Len(UpperChars) : UpperChars[i] = c
  THEN LowerChars[CHOOSE i \in 1..Len(UpperChars) : UpperChars[i] = c]
  ELSE c

ToUpperChar(c) ==
  IF \E i \in 1..Len(LowerChars) : LowerChars[i] = c
  THEN UpperChars[CHOOSE i \in 1..Len(LowerChars) : LowerChars[i] = c]
  ELSE c

LowerCaseChars(cs) == [i \in 1..Len(cs) |-> ToLowerChar(cs[i])]
UpperCaseChars(cs) == [i \in 1..Len(cs) |-> ToUpperChar(cs[i])]

StrC(cs) == [t |-> "string", cs |-> cs]
NoStr == [t |-> "undefined", cs |-> <<>>]

\* Sub-objects of an indexer record, NoObj when the property is absent.
Obj(dashId, camelId, amt) ==
  [t |-> "object", asset_id |-> dashId, assetId |-> camelId, amount |-> amt]
NoObj == [t |-> "undefined", asset_id |-> Undefined, assetId |-> Undefined,
          amount |-> Undefined]

\* obj?.field
OptAmount(o) == IF o.t = "object" THEN o.amount ELSE Undefined
OptAssetIdDash(o) == IF o.t = "object" THEN o.asset_id ELSE Undefined
OptAssetIdCamel(o) == IF o.t = "object" THEN o.assetId ELSE Undefined

\* Truthiness of a value used as a condition.
Truthy(x) ==
  CASE x.t = "undefined" -> FALSE
    [] x.t = "null" -> FALSE
    [] x.t = "number" -> ~(x.k = "nan" \/ (x.k = "int" /\ x.hi = 0 /\ x.v = 0))
    [] x.t = "bigint" -> ~(x.hi = 0 /\ x.v = 0)
    [] x.t = "string" -> x.s # ""
    [] OTHER -> TRUE

(***************************************************************************)
(* PortfolioDashboard.loadPortfolio: the pure parts.                       *)
(***************************************************************************)
\* Lines 84-94: one entry of acct.assets, Null when it is skipped.
RawAsset(a) ==
  LET assetIdRaw == Coalesce(Coalesce(a.asset_id, a.assetId), a.assetId)
      assetId == IF assetIdRaw.t = "number" THEN assetIdRaw ELSE ToNumber(assetIdRaw)
      amountRaw == Coalesce(Coalesce(a.amount, a.amount), Num(0))
      amount == IF amountRaw.t = "bigint" THEN ToNumber(amountRaw) ELSE ToNumber(amountRaw)
  IN  IF ~IsFinite(assetId) THEN Null
      ELSE [assetId |-> assetId, amount |-> amount]

\* .filter(x => x != null)
RECURSIVE FilterNonNull(_)
FilterNonNull(xs) ==
  IF xs = <<>> THEN <<>>
  ELSE IF Head(xs) = Null THEN FilterNonNull(Tail(xs))
  ELSE <<Head(xs)>> \o FilterNonNull(Tail(xs))

\* An account response; hasAssets is FALSE when acct.assets is absent.
Account(amt, hasAssets, holdings) ==
  [amount |-> amt, hasAssets |-> hasAssets, assets |-> holdings]

\* Lines 82-96: rawAssets
RawAssets(acct) ==
  IF ~acct.hasAssets THEN <<>>
  ELSE FilterNonNull([i \in 1..Len(acct.assets) |-> RawAsset(acct.assets[i])])

\* Line 74: algoRaw
AlgoRaw(amountField) ==
  IF amountField.t = "bigint" THEN ToNumber(amountField)
  ELSE Coalesce(amountField, Num(0))

\* Line 75: algoRaw / 1e6, kept as the numerator in microAlgos.
AlgoBalanceOf(amountField) == [t |-> "algo", micro |-> AlgoRaw(amountField)]

\* res.params of getAssetByID
Params(name, dashName, camelName, dashUnit, camelUnit, unit, decimals) ==
  [name |-> name, asset_name |-> dashName, assetName |-> camelName,
   unit_name |-> dashUnit, unitName |-> camelUnit, unit |-> unit,
   decimals |-> decimals]

\* Lines 108-117: a holding with the metadata of a successful getAssetByID.
Enriched(asset, params) ==
  LET nm == Coalesce(Coalesce(Coalesce(params.name, params.asset_name),
                              params.assetName), Str("Unknown"))
      un == Coalesce(Coalesce(Coalesce(params.unit_name, params.unitName),
                              params.unit), Str("N/A"))
      dec == IF IsFinite(ToNumber(params.decimals))
             THEN ToNumber(params.decimals) ELSE Num(0)
  IN  [assetId |-> asset.assetId, amount |-> asset.amount,
       decimals |-> dec, name |-> nm, unitName |-> un]

\* Lines 118-126: a holding whose getAssetByID threw.
EnrichedFallback(asset) ==
  [assetId |-> asset.assetId, amount |-> asset.amount,
   decimals |-> Num(0), name |-> Str("Unknown"), unitName |-> Str("N/A")]

\* Lines 133-136 and 175: assetMetaById.get(key); the last entry set wins.
HasMeta(enriched, key) ==
  \E i \in 1..Len(enriched) : NumStrictEq(enriched[i].assetId, key)

MetaById(enriched, key) ==
  enriched[CHOOSE i \in 1..Len(enriched) :
             /\ NumStrictEq(enriched[i].assetId, key)
             /\ \A j \in (i + 1)..Len(enriched) : ~NumStrictEq(enriched[j].assetId, key)]

\* One record of txRes.transactions.
RawTxn(txType, type, trType, payTx, pay, axferTx, axfer, axferSnake, amt, id, txid, group, confRound, confRoundCamel, round, roundTime, roundTimeCamel) ==
  [tx_type |-> txType, type |-> type, transaction_type |-> trType,
   payment_transaction |-> payTx, payment |-> pay,
   asset_transfer_transaction |-> axferTx, asset_transfer |-> axfer,
   asset_transfer_transaction_snake |-> axferSnake, amount |-> amt,
   id |-> id, txid |-> txid, group |-> group,
   confirmed_round |-> confRound, confirmedRound |-> confRoundCamel,
   round |-> round, round_time |-> roundTime, roundTime |-> roundTimeCamel]

CoalesceStr(a, b) == IF a.t = "undefined" THEN b ELSE a
CoalesceObj(a, b) == IF a.t = "undefined" THEN b ELSE a

TypeAlgo == <<"A", "L", "G", "O">>
TypeAsa == <<"A", "S", "A">>
TypeUnknown == <<"U", "n", "k", "n", "o", "w", "n">>

\* Lines 151-157: the friendly type of a record.
TxType(t) ==
  LET txTypeRaw ==
        LowerCaseChars(CoalesceStr(CoalesceStr(CoalesceStr(t.tx_type, t.type),
                                               t.transaction_type), StrC(<<>>)).cs)
  IN  IF Includes(txTypeRaw, <<"p", "a", "y">>)
         \/ Includes(txTypeRaw, <<"p", "a", "y", "m", "e", "n", "t">>)
      THEN TypeAlgo
      ELSE IF Includes(txTypeRaw, <<"a", "x", "f", "e", "r">>)
              \/ Includes(txTypeRaw, <<"a", "s", "s", "e", "t">>)
      THEN TypeAsa
      ELSE IF txTypeRaw # <<>> THEN UpperCaseChars(txTypeRaw)
      ELSE TypeUnknown

\* Decimals of an ALGO payment (line 170).
AlgoDecimals == 6

\* Lines 149-198: one mapped transaction.
MappedTxn(t, index, enriched) ==
  LET txType == TxType(t)
      pay == CoalesceObj(t.payment_transaction, t.payment)
      axfer == CoalesceObj(CoalesceObj(t.asset_transfer_transaction, t.asset_transfer),
                           t.asset_transfer_transaction_snake)
      isPay == txType = <<"p", "a", "y">> \/ pay.t = "object"
      isAxfer == ~isPay /\ (txType = <<"a", "x", "f", "e", "r">> \/ axfer.t = "object")
      assetId == IF isAxfer
                 THEN Coalesce(Coalesce(OptAssetIdDash(axfer), OptAssetIdCamel(axfer)),
                               OptAssetIdCamel(axfer))
                 ELSE Undefined
      amount0 == IF isPay THEN Coalesce(Coalesce(OptAmount(pay), t.amount), Num(0))
                 ELSE IF isAxfer THEN Coalesce(Coalesce(OptAmount(axfer), t.amount), Num(0))
                 ELSE Num(0)
      key == ToNumber(Coalesce(assetId, Num(0 - 1)))
      decimals == IF isPay THEN Num(AlgoDecimals)
                  ELSE IF isAxfer /\ HasMeta(enriched, key)
                  THEN MetaById(enriched, key).decimals
                  ELSE Num(0)
      amount == IF amount0.t = "number" THEN amount0 ELSE ToNumber(amount0)
      roundRaw == Coalesce(Coalesce(t.confirmed_round, t.confirmedRound), t.round)
      id == IF ~Nullish(Coalesce(t.id, t.txid)) THEN Coalesce(t.id, t.txid)
            ELSE [t |-> "template", group |-> Coalesce(t.group, Str("grp")),
                  round |-> Coalesce(Coalesce(t.confirmed_round, t.round), Num(0)),
                  index |-> index]
  IN  [id |-> id,
       type |-> txType,
       assetId |-> IF Truthy(assetId) THEN ToNumber(assetId) ELSE Undefined,
       amount |-> amount,
       decimals |-> decimals,
       round |-> IF IsFinite(ToNumber(roundRaw)) THEN ToNumber(roundRaw) ELSE Undefined,
       timestamp |-> Coalesce(Coalesce(t.round_time, t.roundTime), t.round_time)]

\* An indexer response; hasTransactions is FALSE when the property is absent.
TxResponse(hasTransactions, transactions) ==
  [hasTransactions |-> hasTransactions, transactions |-> transactions]

\* Lines 148-199: mapped
MappedTxns(txRes, enriched) ==
  IF ~txRes.hasTransactions THEN <<>>
  ELSE [i \in 1..Len(txRes.transactions) |->
          MappedTxn(txRes.transactions[i], i - 1, enriched)]

\* Lines 244-248: the amount shown, as <<amount, decimals>>: amount / 10^decimals.
FormatTxnAmount(t) ==
  IF Nullish(t.amount) THEN <<Undefined, Num(0)>>
  ELSE <<t.amount, Coalesce(t.decimals, Num(0))>>

(***************************************************************************)
(* State.                                                                  *)
(***************************************************************************)
VARIABLES
  activeAddress,        \* useWallet().activeAddress: an address or NoAddress
  transactionSigner,    \* useWallet().transactionSigner is set
  send_version,         \* which handleSend the modal runs: "retry" or "plain"
  send_assetId,         \* SendAssetModal form fields (strings)
  send_receiver,
  send_amount,
  send_loading,         \* SendAssetModal loading flag
  openSendAssetModal,   \* PortfolioDashboard flag passed as the modal's open
  sends,                \* sends[r]: the r-th invocation of handleSend
  algoBalance,          \* PortfolioDashboard state
  assets,
  txns,
  loading,
  loads,                \* loads[r]: the r-th invocation of loadPortfolio
  openCreateTokenModalLocal,
  create_name,          \* CreateTokenModal form fields
  create_unit,
  create_supply,
  create_loading,
  creates,              \* creates[r]: the r-th invocation of handleCreate
  openWalletModal,      \* Home state
  openDemoModal,
  homeCall              \* the last callback of Home invoked; tick flips at each call

sendVars == <<send_version, send_assetId, send_receiver, send_amount,
              send_loading, openSendAssetModal, sends>>
walletVars == <<activeAddress, transactionSigner>>
dashVars == <<algoBalance, assets, txns, loading, loads>>
createVars == <<openCreateTokenModalLocal, create_name, create_unit,
                create_supply, create_loading, creates>>
homeVars == <<openWalletModal, openDemoModal, homeCall>>
vars == <<walletVars, homeVars, sendVars, dashVars, createVars>>

NoAddress == "null"
Addresses == {"ADDR_A", "ADDR_B"}

\* Notifications (enqueueSnackbar), as <<variant, message>>.
NoteConnectWallet == <<"warning", "Please connect your wallet first">>
NoteFillFields == <<"warning", "Please fill in all fields">>
NoteAmountPositive == <<"warning", "Amount must be greater than zero">>
NoteReceiverMustOptIn == <<"warning", "Receiver must opt-in to receive this asset.">>
NoteUnableToVerify == <<"warning", "Unable to verify receiver opt-in status. Aborting send.">>
NoteSending == <<"info", "Sending ASA transfer...">>
NoteSent == <<"success", "Asset transfer sent">>
NoteStale == <<"info", "Stale tx params detected, retrying...">>
NoteOptInFirst == <<"warning", "Receiver must opt-in to this ASA in their wallet before they can receive it.">>
NoteSendFailed == <<"error", "Failed to send asset transfer">>

\* Values the user can type into the form's inputs.
AssetIdInputs == {"", "5"}
ReceiverInputs == {"", "RCVR"}
AmountInputs == {"", "0", "10", "1.5"}

(***************************************************************************)
(* Account responses of algod: assets is a list of holdings.  A holding    *)
(* carries its ID under 'asset-id' or assetId, as number, string or        *)
(* bigint.  trueId and trueAmount are ghost fields: the integers the       *)
(* chain holds, whatever the encoding (0 - 1 when the field is absent).    *)
(***************************************************************************)
Holding(dashId, camelId, amt, tid, tamt) ==
  [asset_id |-> dashId, assetId |-> camelId, amount |-> amt,
   trueId |-> tid, trueAmount |-> tamt]

\* What a receiver's account lookup can return as recvAcct.assets.
ReceiverAssetLists ==
  { <<>>,
    << Holding(Num(5), Undefined, Num(1), 5, <<0, 1>>) >>,
    << Holding(Undefined, Big(0, 7), Big(0, 2), 7, <<0, 2>>) >>,
    << Holding(Num(7), Undefined, Num(1), 7, <<0, 1>>),
       Holding(Undefined, Big(0, 5), Big(0, 0), 5, <<0, 0>>) >>,
    << Holding(Str("5"), Undefined, Num(3), 5, <<0, 3>>) >>,
    << Holding(Undefined, Undefined, Num(3), 0 - 1, <<0, 3>>) >> }

(***************************************************************************)
(* SendAssetModal.handleSend                                               *)
(***************************************************************************)
IdleSend ==
  [pc |-> "idle", assetId |-> "", amount |-> "", attempt |-> 0,
   calls |-> <<>>, notes |-> <<>>, results |-> <<>>, lookup |-> "none",
   outcome |-> "", alive |-> TRUE, loadsBefore |-> 0]

SendIds == 1..MaxSends

\* The invocation a click starts: the first unused one.
FreeSend(r) == sends[r].pc = "idle" /\ \A q \in 1..(r - 1) : sends[q].pc # "idle"

\* The checks without the one on the amount's sign.
ValidationWarningNoSign(addr, signer, aId, rcv, amt) ==
  IF addr = NoAddress \/ ~signer THEN NoteConnectWallet
  ELSE IF aId = "" \/ rcv = "" \/ amt = "" THEN NoteFillFields
  ELSE <<>>

\* Lines 460-473: the warning of the first failing check, <<>> when all pass.
ValidationWarning(addr, signer, aId, rcv, amt) ==
  IF addr = NoAddress \/ ~signer THEN NoteConnectWallet
  ELSE IF aId = "" \/ rcv = "" \/ amt = "" THEN NoteFillFields
  ELSE IF NumLeqZero(StringToNumber(amt)) THEN NoteAmountPositive
  ELSE <<>>

\* The pre-check asking only whether the receiver holds any asset.
HasOptInAnyAsset(recvAssets, aId) == Len(recvAssets) > 0

\* Lines 481-485: recvAssets.some(...)
HasOptIn(recvAssets, aId) ==
  \E i \in 1..Len(recvAssets) :
    LET a == recvAssets[i]
        idRaw == Coalesce(Coalesce(a.asset_id, a.assetId), a.assetId)
        id == IF idRaw.t = "number" THEN idRaw ELSE ToNumber(idRaw)
    IN  NumStrictEq(ToNumber(id), StringToNumber(aId))

\* Lines 508-509: evaluating the arguments of assetTransfer throws.
TransferArgsThrow(aId, amt) ==
  BigIntOfNumberThrows(StringToNumber(aId)) \/ BigIntOfStringThrows(amt)

\* Line 670-671 (plain version): assetId is passed as a Number.
PlainTransferArgsThrow(amt) == BigIntOfStringThrows(amt)

\* The outer catch deciding on the lower-cased text.
FailureNoteLowerCased(msg) ==
  IF Includes(ToLowerCase(msg), <<"must", "optin">>) THEN NoteOptInFirst ELSE NoteSendFailed

\* Lines 539-548: the outer catch's notification.
FailureNote(msg) ==
  IF Includes(msg, <<"must", "optin">>) THEN NoteOptInFirst ELSE NoteSendFailed

\* The retry decision without toLowerCase().
ShouldRetryCaseSensitive(em, attempt) ==
  Includes(em, <<"txn", "dead">>) /\ attempt = 0

\* Line 521: retry decision in the inner catch.
ShouldRetry(em, attempt) ==
  Includes(ToLowerCase(em), <<"txn", "dead">>) /\ attempt = 0

\* onChange of the three inputs.
SetAssetId(x) ==
  /\ send_assetId' = x
  /\ UNCHANGED <<dashVars, createVars, walletVars, homeVars, send_version, send_receiver, send_amount,
                 send_loading, openSendAssetModal, sends>>

SetReceiver(x) ==
  /\ send_receiver' = x
  /\ UNCHANGED <<dashVars, createVars, walletVars, homeVars, send_version, send_assetId, send_amount,
                 send_loading, openSendAssetModal, sends>>

SetAmount(x) ==
  /\ send_amount' = x
  /\ UNCHANGED <<dashVars, createVars, walletVars, homeVars, send_version, send_assetId, send_receiver,
                 send_loading, openSendAssetModal, sends>>

\* Lines 459-473: a click on Send that a validation check turns away.
HandleSendInvalid(r) ==
  LET w == ValidationWarning(activeAddress, transactionSigner,
                             send_assetId, send_receiver, send_amount)
  IN  /\ FreeSend(r)
      /\ w # <<>>
      /\ sends' = [sends EXCEPT ![r] =
                     [IdleSend EXCEPT !.pc = "done", !.notes = <<w>>,
                                      !.outcome = "invalid"]]
      /\ UNCHANGED <<dashVars, createVars, walletVars, homeVars, send_version, send_assetId, send_receiver,
                     send_amount, send_loading, openSendAssetModal>>

\* The outer catch and finally (lines 537-551) after an error with text msg.
SendFailed(run, msg) ==
  [run EXCEPT !.pc = "done", !.outcome = "failed",
              !.assetId = "", !.amount = "",
              !.notes = Append(run.notes, FailureNote(msg))]

\* Lines 475-479 (retry version): validation passed, the receiver lookup starts.
HandleSendStart(r) ==
  /\ send_version = "retry"
  /\ FreeSend(r)
  /\ ValidationWarning(activeAddress, transactionSigner,
                       send_assetId, send_receiver, send_amount) = <<>>
  /\ send_loading' = TRUE
  /\ sends' = [sends EXCEPT ![r] =
                 [IdleSend EXCEPT !.pc = "lookup", !.assetId = send_assetId,
                                  !.amount = send_amount,
                                  !.calls = <<"accountInformation">>]]
  /\ UNCHANGED <<dashVars, createVars, walletVars, homeVars, send_version, send_assetId, send_receiver,
                 send_amount, openSendAssetModal>>

\* A state setter of the modal: it acts only while the modal is mounted.
SendLoadingSet(run, b) ==
  IF run.alive THEN send_loading' = b ELSE UNCHANGED send_loading

\* Lines 533-536 and 550: the form is cleared, onClose() and setLoading(false).
ClearFormAndClose(run) ==
  IF run.alive
  THEN /\ send_assetId' = ""
       /\ send_receiver' = ""
       /\ send_amount' = ""
       /\ openSendAssetModal' = FALSE
       /\ send_loading' = FALSE
  ELSE UNCHANGED <<send_assetId, send_receiver, send_amount,
                   openSendAssetModal, send_loading>>

\* Ghost: how many loadPortfolio invocations have started so far.
LoadsStarted == Cardinality({q \in DOMAIN loads : loads[q].pc # "idle"})

\* The lookup's catch without its setLoading(false).
LookupThrowsStillLoading(r) ==
  /\ sends[r].pc = "lookup"
  /\ sends' = [sends EXCEPT ![r] =
                 [@ EXCEPT !.pc = "done", !.outcome = "lookupFailed",
                           !.assetId = "", !.amount = "",
                           !.lookup = "threw",
                           !.notes = Append(@, NoteUnableToVerify)]]
  /\ UNCHANGED <<dashVars, createVars, walletVars, homeVars, send_version, send_assetId, send_receiver,
                 send_amount, send_loading, openSendAssetModal>>

\* Lines 492-497: the lookup threw.
LookupThrows(r) ==
  /\ sends[r].pc = "lookup"
  /\ SendLoadingSet(sends[r], FALSE)
  /\ sends' = [sends EXCEPT ![r] =
                 [@ EXCEPT !.pc = "done", !.outcome = "lookupFailed",
                           !.assetId = "", !.amount = "",
                           !.lookup = "threw",
                           !.notes = Append(@, NoteUnableToVerify)]]
  /\ UNCHANGED <<dashVars, createVars, walletVars, homeVars, send_version, send_assetId, send_receiver,
                 send_amount, openSendAssetModal>>

\* The asset ID a form string denotes (ghost), 0 - 1 when it denotes none.
AssetIdDenoted(x) ==
  CASE x = "5" -> 5
    [] x = "7" -> 7
    [] OTHER -> 0 - 1

\* Ghost: whether the returned holdings truly include the entered asset.
LookupTruth(recvAssets, aId) ==
  IF \E i \in 1..Len(recvAssets) :
       recvAssets[i].trueId >= 0 /\ recvAssets[i].trueId = AssetIdDenoted(aId)
  THEN "held" ELSE "notHeld"

\* Lines 480-491: the lookup returned and the asset is not among the holdings.
LookupNotOptedIn(r, recvAssets) ==
  /\ sends[r].pc = "lookup"
  /\ ~HasOptIn(recvAssets, sends[r].assetId)
  /\ SendLoadingSet(sends[r], FALSE)
  /\ sends' = [sends EXCEPT ![r] =
                 [@ EXCEPT !.pc = "done", !.outcome = "notOptedIn",
                           !.assetId = "", !.amount = "",
                           !.lookup = LookupTruth(recvAssets, sends[r].assetId),
                           !.notes = Append(@, NoteReceiverMustOptIn)]]
  /\ UNCHANGED <<dashVars, createVars, walletVars, homeVars, send_version, send_assetId, send_receiver,
                 send_amount, openSendAssetModal>>

\* Lines 480-511: the receiver holds the asset; the first attempt is submitted,
\* unless building its arguments throws, which the outer catch reports.
LookupOptedIn(r, recvAssets) ==
  /\ sends[r].pc = "lookup"
  /\ HasOptIn(recvAssets, sends[r].assetId)
  /\ LET run == [sends[r] EXCEPT !.lookup = LookupTruth(recvAssets, sends[r].assetId),
                                 !.notes = Append(@, NoteSending)]
     IN  IF TransferArgsThrow(run.assetId, run.amount)
         THEN /\ sends' = [sends EXCEPT ![r] = SendFailed(run, ConversionError.text)]
              /\ SendLoadingSet(sends[r], FALSE)
         ELSE /\ sends' = [sends EXCEPT ![r] =
                             [run EXCEPT !.pc = "transfer",
                                         !.calls = Append(@, "assetTransfer")]]
              /\ UNCHANGED send_loading
  /\ UNCHANGED <<dashVars, createVars, walletVars, homeVars, send_version, send_assetId, send_receiver,
                 send_amount, openSendAssetModal>>

\* Lines 513-517 and 533-536, 550: an attempt resolved.
TransferResolves(r) ==
  /\ sends[r].pc = "transfer"
  /\ sends' = [sends EXCEPT ![r] =
                 [@ EXCEPT !.pc = "done", !.outcome = "sent",
                           !.assetId = "", !.amount = "",
                           !.results = Append(@, "ok"),
                           !.loadsBefore = LoadsStarted,
                           !.notes = Append(@, NoteSent)]]
  /\ ClearFormAndClose(sends[r])
  /\ UNCHANGED <<dashVars, createVars, walletVars, homeVars, send_version>>

\* The ghost record of a rejection: what its text truly contains.
ErrorClass(err) ==
  IF err.dead /\ err.optin THEN "dead+optin"
  ELSE IF err.dead THEN "dead"
  ELSE IF err.optin THEN "optin"
  ELSE "other"

\* The rejection handled with the form cleared and onClose() in finally.
TransferRejectsClosing(r, err) ==
  /\ sends[r].pc = "transfer"
  /\ LET run == [sends[r] EXCEPT !.results = Append(@, ErrorClass(err))]
         em == err.text
     IN  IF send_version = "retry" /\ ShouldRetry(em, run.attempt)
         THEN /\ sends' = [sends EXCEPT ![r] =
                             [run EXCEPT !.pc = "delay",
                                         !.notes = Append(@, NoteStale)]]
              /\ UNCHANGED <<send_assetId, send_receiver, send_amount,
                             send_loading, openSendAssetModal>>
         ELSE /\ sends' = [sends EXCEPT ![r] = SendFailed(run, em)]
              /\ ClearFormAndClose(sends[r])
  /\ UNCHANGED <<dashVars, createVars, walletVars, homeVars, send_version>>

\* Lines 518-531: an attempt rejected with error err.
TransferRejects(r, err) ==
  /\ sends[r].pc = "transfer"
  /\ LET run == [sends[r] EXCEPT !.results = Append(@, ErrorClass(err))]
         em == err.text
     IN  IF send_version = "retry" /\ ShouldRetry(em, run.attempt)
         THEN /\ sends' = [sends EXCEPT ![r] =
                             [run EXCEPT !.pc = "delay",
                                         !.notes = Append(@, NoteStale)]]
              /\ UNCHANGED send_loading
         ELSE /\ sends' = [sends EXCEPT ![r] = SendFailed(run, em)]
              /\ SendLoadingSet(sends[r], FALSE)
  /\ UNCHANGED <<dashVars, createVars, walletVars, homeVars, send_version, send_assetId, send_receiver,
                 send_amount, openSendAssetModal>>

\* The timer fired but attempt += 1 was left out.
RetryTimerFiresNoIncrement(r) ==
  /\ sends[r].pc = "delay"
  /\ sends' = [sends EXCEPT ![r] =
                 [@ EXCEPT !.pc = "transfer",
                           !.calls = Append(@, "assetTransfer")]]
  /\ UNCHANGED <<dashVars, createVars, walletVars, homeVars, send_version, send_assetId, send_receiver,
                 send_amount, send_loading, openSendAssetModal>>

\* Lines 524-526 and 503-511: the 1100 ms timer fired, attempt += 1, continue;
\* the loop runs again while attempt < 2, else control falls to lines 533-536.
RetryTimerFires(r) ==
  /\ sends[r].pc = "delay"
  /\ IF sends[r].attempt + 1 < MaxAttempts
     THEN /\ sends' = [sends EXCEPT ![r] =
                         [@ EXCEPT !.pc = "transfer", !.attempt = @ + 1,
                                   !.calls = Append(@, "assetTransfer")]]
          /\ UNCHANGED <<send_assetId, send_receiver, send_amount,
                         send_loading, openSendAssetModal>>
     ELSE /\ sends' = [sends EXCEPT ![r] =
                         [@ EXCEPT !.pc = "done", !.attempt = @ + 1,
                                   !.assetId = "", !.amount = "",
                                   !.outcome = "exhausted"]]
          /\ ClearFormAndClose(sends[r])
  /\ UNCHANGED <<dashVars, createVars, walletVars, homeVars, send_version>>

\* Lines 647-673 (plain version): validation passed, the transfer is submitted
\* at once; an argument that throws is reported by the catch in the same turn.
HandleSendPlain(r) ==
  /\ send_version = "plain"
  /\ FreeSend(r)
  /\ ValidationWarning(activeAddress, transactionSigner,
                       send_assetId, send_receiver, send_amount) = <<>>
  /\ LET run == [IdleSend EXCEPT !.assetId = send_assetId,
                                 !.amount = send_amount,
                                 !.notes = <<NoteSending>>]
     IN  IF PlainTransferArgsThrow(send_amount)
         THEN /\ sends' = [sends EXCEPT ![r] = SendFailed(run, ConversionError.text)]
              /\ send_loading' = FALSE
         ELSE /\ sends' = [sends EXCEPT ![r] =
                             [run EXCEPT !.pc = "transfer",
                                         !.calls = <<"assetTransfer">>]]
              /\ send_loading' = TRUE
  /\ UNCHANGED <<dashVars, createVars, walletVars, homeVars, send_version, send_assetId, send_receiver,
                 send_amount, openSendAssetModal>>

\* Lines 602-604: the Close button.
CloseSendModal ==
  /\ openSendAssetModal
  /\ ~send_loading
  /\ openSendAssetModal' = FALSE
  /\ UNCHANGED <<dashVars, createVars, walletVars, homeVars, send_version, send_assetId, send_receiver,
                 send_amount, send_loading, sends>>

\* part_002 line 318: the dashboard's "Send ASA Token" button.
OpenSendModal ==
  /\ ~openSendAssetModal
  /\ openSendAssetModal' = TRUE
  /\ UNCHANGED <<dashVars, createVars, walletVars, homeVars, send_version, send_assetId, send_receiver,
                 send_amount, send_loading, sends>>

(***************************************************************************)
(* The chain as the dashboard sees it: what algod and the indexer answer   *)
(* for the two addresses and the two assets of the model.  ADDR_A holds    *)
(* both assets and has a history; ADDR_B holds asset 5 and the indexer     *)
(* answers for it without a transactions property.                         *)
(***************************************************************************)
AccountOf(addr) ==
  IF addr = "ADDR_A"
  THEN Account(Big(0, 3), TRUE,
               << Holding(Num(5), Undefined, Num(10), 5, <<0, 10>>),
                  Holding(Undefined, Big(0, 7), Big(0, 2), 7, <<0, 2>>) >>)
  ELSE Account(Num(5000000), TRUE,
               << Holding(Undefined, Num(5), Num(40), 5, <<0, 40>>) >>)

\* getAssetByID(id).params
ParamsOf(id) ==
  CASE id = Num(5) -> Params(Str("Dash Token"), Undefined, Undefined,
                             Str("DASH"), Undefined, Undefined, Num(2))
    [] id = Num(7) -> Params(Undefined, Undefined, Str("Seven"),
                             Undefined, Str("SVN"), Undefined, Big(0, 6))
    [] OTHER -> Params(Undefined, Undefined, Undefined,
                       Undefined, Undefined, Undefined, Undefined)

\* Ghost: the metadata the chain holds for an asset, whatever the encoding.
TrueMetadata(id) ==
  CASE id = Num(5) -> [name |-> Str("Dash Token"), unitName |-> Str("DASH"), decimals |-> Num(2)]
    [] id = Num(7) -> [name |-> Str("Seven"), unitName |-> Str("SVN"), decimals |-> Num(6)]
    [] OTHER -> [name |-> Str("Unknown"), unitName |-> Str("N/A"), decimals |-> Num(0)]

NoTxnFields ==
  RawTxn(NoStr, NoStr, NoStr, NoObj, NoObj, NoObj, NoObj, NoObj, Undefined,
         Undefined, Undefined, Undefined, Undefined, Undefined, Undefined,
         Undefined, Undefined)

\* An indexer payment with its 'payment-transaction' sub-object.
PayTxn ==
  [NoTxnFields EXCEPT !.tx_type = StrC(<<"p", "a", "y">>),
                      !.payment_transaction = Obj(Undefined, Undefined, Num(5000000)),
                      !.id = Str("TX1"), !.confirmed_round = Num(100),
                      !.round_time = Num(1700000000)]

\* An indexer asset transfer of asset 5.
AxferTxn ==
  [NoTxnFields EXCEPT !.tx_type = StrC(<<"a", "x", "f", "e", "r">>),
                      !.asset_transfer_transaction = Obj(Num(5), Undefined, Num(250)),
                      !.id = Str("TX2"), !.confirmed_round = Num(101)]

TransactionsOf(addr) ==
  IF addr = "ADDR_A" THEN TxResponse(TRUE, <<PayTxn, AxferTxn>>)
  ELSE TxResponse(FALSE, <<>>)

(***************************************************************************)
(* PortfolioDashboard.loadPortfolio                                        *)
(***************************************************************************)
NotePortfolioError == <<"error", "Failed to load portfolio data">>
NoteIndexerWarning == <<"warning", "Failed to load recent transactions from indexer">>

NoAccount == Account(Undefined, FALSE, <<>>)

\* The values useState gives algoBalance, assets and txns.
NoDisplay == [algoBalance |-> Null, assets |-> <<>>, txns |-> <<>>]

Display == [algoBalance |-> algoBalance, assets |-> assets, txns |-> txns]

\* raw and enriched are the handler's locals rawAssets and enriched; acct,
\* failed, pre (the display when the run began) and alone (no other mounted
\* run overlapped it) are ghost.
IdleLoad ==
  [pc |-> "idle", addr |-> NoAddress, alive |-> TRUE, alone |-> TRUE,
   pre |-> NoDisplay, acct |-> NoAccount, raw |-> <<>>, failed |-> {},
   enriched |-> <<>>, calls |-> <<>>, notes |-> <<>>, outcome |-> ""]

LoadIds == 1..MaxLoads

FreeLoad(r) == loads[r].pc = "idle" /\ \A q \in 1..(r - 1) : loads[q].pc # "idle"

InFlight(run) == run.pc \notin {"idle", "done"}

\* Lines 64-72: loadPortfolio begins for addr as invocation r; ls is loads
\* before the call.
LoadStarted(ls, r, addr) ==
  [q \in LoadIds |->
     IF q = r
     THEN [IdleLoad EXCEPT !.pc = "acct", !.addr = addr,
                           !.alone = \A o \in LoadIds : ~(InFlight(ls[o]) /\ ls[o].alive),
                           !.pre = Display,
                           !.calls = <<"accountInformation">>]
     ELSE IF InFlight(ls[q]) /\ ls[q].alive THEN [ls[q] EXCEPT !.alone = FALSE]
     ELSE ls[q]]

\* A finished run keeps its log; the ghost snapshots are dropped.
Finished(run, outcome, note) ==
  [run EXCEPT !.pc = "done", !.outcome = outcome, !.pre = NoDisplay,
              !.notes = Append(@, note)]

\* Line 290: the Refresh button.
Refresh(r) ==
  /\ activeAddress # NoAddress
  /\ FreeLoad(r)
  /\ loads' = LoadStarted(loads, r, activeAddress)
  /\ loading' = TRUE
  /\ UNCHANGED <<walletVars, homeVars, sendVars, createVars, algoBalance, assets, txns>>

\* The catch that also empties the holdings.
AccountFailsClearing(r) ==
  /\ loads[r].pc = "acct"
  /\ loads' = [loads EXCEPT ![r] = Finished(@, "acctFailed", NotePortfolioError)]
  /\ IF loads[r].alive
     THEN loading' = FALSE /\ assets' = <<>>
     ELSE UNCHANGED <<loading, assets>>
  /\ UNCHANGED <<walletVars, homeVars, sendVars, createVars, algoBalance, txns>>

\* Lines 72 and 208-215: accountInformation threw.
AccountFails(r) ==
  /\ loads[r].pc = "acct"
  /\ loads' = [loads EXCEPT ![r] = Finished(@, "acctFailed", NotePortfolioError)]
  /\ IF loads[r].alive THEN loading' = FALSE ELSE UNCHANGED loading
  /\ UNCHANGED <<walletVars, homeVars, sendVars, createVars, algoBalance, assets, txns>>

\* Lines 72-104: accountInformation returned acct; the balance is set and one
\* getAssetByID is issued per holding kept.
AccountReturns(r, acct) ==
  /\ loads[r].pc = "acct"
  /\ LET raw == RawAssets(acct)
     IN  loads' = [loads EXCEPT ![r] =
                     [@ EXCEPT !.pc = "meta", !.acct = acct, !.raw = raw,
                               !.calls = @ \o [i \in 1..Len(raw) |-> "getAssetByID"]]]
  /\ IF loads[r].alive THEN algoBalance' = AlgoBalanceOf(acct.amount)
     ELSE UNCHANGED algoBalance
  /\ UNCHANGED <<walletVars, homeVars, sendVars, createVars, assets, txns, loading>>

\* Lines 101-128: enriched, given the set of positions whose getAssetByID threw.
EnrichAll(raw, failed) ==
  [i \in 1..Len(raw) |->
     IF i \in failed THEN EnrichedFallback(raw[i])
     ELSE Enriched(raw[i], ParamsOf(raw[i].assetId))]

\* A metadata failure that rejects Promise.all, so the outer catch runs.
MetadataSettlesFailFast(r, failed) ==
  /\ loads[r].pc = "meta"
  /\ failed \subseteq 1..Len(loads[r].raw)
  /\ IF failed # {}
     THEN /\ loads' = [loads EXCEPT ![r] =
                         Finished([@ EXCEPT !.failed = failed], "metaFailed",
                                  NotePortfolioError)]
          /\ IF loads[r].alive THEN loading' = FALSE ELSE UNCHANGED loading
          /\ UNCHANGED assets
     ELSE /\ loads' = [loads EXCEPT ![r] =
                         [@ EXCEPT !.pc = "indexer", !.failed = failed,
                                   !.enriched = EnrichAll(loads[r].raw, failed),
                                   !.calls = Append(@, "searchForTransactions")]]
          /\ IF loads[r].alive THEN assets' = EnrichAll(loads[r].raw, failed)
             ELSE UNCHANGED assets
          /\ UNCHANGED loading
  /\ UNCHANGED <<walletVars, homeVars, sendVars, createVars, algoBalance, txns>>

\* Lines 101-146: every getAssetByID settled, those at the positions in failed
\* by throwing; assets is set and the indexer search is issued.
MetadataSettles(r, failed) ==
  /\ loads[r].pc = "meta"
  /\ failed \subseteq 1..Len(loads[r].raw)
  /\ LET enriched == EnrichAll(loads[r].raw, failed)
     IN  /\ loads' = [loads EXCEPT ![r] =
                        [@ EXCEPT !.pc = "indexer", !.failed = failed,
                                  !.enriched = enriched,
                                  !.calls = Append(@, "searchForTransactions")]]
         /\ IF loads[r].alive THEN assets' = enriched ELSE UNCHANGED assets
  /\ UNCHANGED <<walletVars, homeVars, sendVars, createVars, algoBalance, txns, loading>>

\* Lines 148-201 and 213-215: the indexer returned txRes.
IndexerReturns(r, txRes) ==
  /\ loads[r].pc = "indexer"
  /\ loads' = [loads EXCEPT ![r] =
                 [@ EXCEPT !.pc = "done", !.outcome = "loaded", !.pre = NoDisplay]]
  /\ IF loads[r].alive
     THEN txns' = MappedTxns(txRes, loads[r].enriched) /\ loading' = FALSE
     ELSE UNCHANGED <<txns, loading>>
  /\ UNCHANGED <<walletVars, homeVars, sendVars, createVars, algoBalance, assets>>

\* The inner catch that also empties the transaction list.
IndexerFailsClearing(r) ==
  /\ loads[r].pc = "indexer"
  /\ loads' = [loads EXCEPT ![r] = Finished(@, "indexerFailed", NoteIndexerWarning)]
  /\ IF loads[r].alive THEN loading' = FALSE /\ txns' = <<>>
     ELSE UNCHANGED <<loading, txns>>
  /\ UNCHANGED <<walletVars, homeVars, sendVars, createVars, algoBalance, assets>>

\* Lines 202-207 and 213-215: the indexer search threw.
IndexerFails(r) ==
  /\ loads[r].pc = "indexer"
  /\ loads' = [loads EXCEPT ![r] = Finished(@, "indexerFailed", NoteIndexerWarning)]
  /\ IF loads[r].alive THEN loading' = FALSE ELSE UNCHANGED loading
  /\ UNCHANGED <<walletVars, homeVars, sendVars, createVars, algoBalance, assets, txns>>

\* Home line 48 and part_002 lines 218-221: a wallet connects, the dashboard
\* mounts and its effect starts loadPortfolio.
WalletConnect(addr, r) ==
  /\ activeAddress = NoAddress
  /\ FreeLoad(r)
  /\ activeAddress' = addr
  /\ transactionSigner' = TRUE
  /\ loads' = LoadStarted(loads, r, addr)
  /\ loading' = TRUE
  /\ UNCHANGED <<homeVars, sendVars, createVars, algoBalance, assets, txns>>

\* Lines 218-221 and 226: the active address changes under a mounted
\* dashboard and the effect starts loadPortfolio again.
WalletSwitch(addr, r) ==
  /\ activeAddress \notin {NoAddress, addr}
  /\ FreeLoad(r)
  /\ activeAddress' = addr
  /\ loads' = LoadStarted(loads, r, addr)
  /\ loading' = TRUE
  /\ UNCHANGED <<transactionSigner, homeVars, sendVars, createVars, algoBalance, assets, txns>>

\* What an invocation still awaiting becomes when its component unmounts:
\* its later setState calls do nothing.
Orphaned(run) == IF run.pc \notin {"idle", "done"} THEN [run EXCEPT !.alive = FALSE] ELSE run

\* The disconnect with a dashboard that stays mounted: lines 218-226 empty the
\* display and the invocations still awaiting keep their setState calls.
WalletDisconnectStayingMounted ==
  /\ activeAddress # NoAddress
  /\ activeAddress' = NoAddress
  /\ transactionSigner' = FALSE
  /\ algoBalance' = Null
  /\ assets' = <<>>
  /\ txns' = <<>>
  /\ UNCHANGED <<loading, loads>>
  /\ send_assetId' = ""
  /\ send_receiver' = ""
  /\ send_amount' = ""
  /\ send_loading' = FALSE
  /\ openSendAssetModal' = FALSE
  /\ sends' = [r \in SendIds |-> Orphaned(sends[r])]
  /\ openCreateTokenModalLocal' = FALSE
  /\ create_name' = "Dash Token"
  /\ create_unit' = "DASH"
  /\ create_supply' = "1000000"
  /\ create_loading' = FALSE
  /\ creates' = [c \in DOMAIN creates |-> Orphaned(creates[c])]
  /\ UNCHANGED <<send_version, homeVars>>

\* Home line 48: the wallet disconnects and Home unmounts the dashboard with
\* both modals; every useState is back at its initial value on the next mount.
WalletDisconnect ==
  /\ activeAddress # NoAddress
  /\ activeAddress' = NoAddress
  /\ transactionSigner' = FALSE
  /\ algoBalance' = Null
  /\ assets' = <<>>
  /\ txns' = <<>>
  /\ loading' = FALSE
  /\ loads' = [r \in LoadIds |-> Orphaned(loads[r])]
  /\ send_assetId' = ""
  /\ send_receiver' = ""
  /\ send_amount' = ""
  /\ send_loading' = FALSE
  /\ openSendAssetModal' = FALSE
  /\ sends' = [r \in SendIds |-> Orphaned(sends[r])]
  /\ openCreateTokenModalLocal' = FALSE
  /\ create_name' = "Dash Token"
  /\ create_unit' = "DASH"
  /\ create_supply' = "1000000"
  /\ create_loading' = FALSE
  /\ creates' = [c \in DOMAIN creates |-> Orphaned(creates[c])]
  /\ UNCHANGED <<send_version, homeVars>>

(***************************************************************************)
(* CreateTokenModal.handleCreate (part_001)                                *)
(***************************************************************************)
NoteConnectFirst == <<"warning", "Please connect wallet first">>
NoteCreating == <<"info", "Creating token...">>
NoteCreated == <<"success", "Token created! Asset ID">>
NoteCreateFailed == <<"error", "Failed to create token">>

NameInputs == {"Dash Token", "Tok"}
UnitInputs == {"DASH", "TK"}
SupplyInputs == {"1000000", "1.5"}

IdleCreate ==
  [pc |-> "idle", alive |-> TRUE, calls |-> <<>>, notes |-> <<>>,
   outcome |-> "", loadsBefore |-> 0]

CreateIds == 1..MaxCreates

FreeCreate(c) == creates[c].pc = "idle" /\ \A q \in 1..(c - 1) : creates[q].pc # "idle"

\* part_001 lines 68, 73, 78: the form's inputs.
SetName(x) ==
  /\ x # create_name
  /\ create_name' = x
  /\ UNCHANGED <<walletVars, homeVars, sendVars, dashVars, openCreateTokenModalLocal,
                 create_unit, create_supply, create_loading, creates>>

SetUnit(x) ==
  /\ x # create_unit
  /\ create_unit' = x
  /\ UNCHANGED <<walletVars, homeVars, sendVars, dashVars, openCreateTokenModalLocal,
                 create_name, create_supply, create_loading, creates>>

SetSupply(x) ==
  /\ x # create_supply
  /\ create_supply' = x
  /\ UNCHANGED <<walletVars, homeVars, sendVars, dashVars, openCreateTokenModalLocal,
                 create_name, create_unit, create_loading, creates>>

\* part_002 lines 324-327: the dashboard's "Create Token" button.
OpenCreateModal ==
  /\ ~openCreateTokenModalLocal
  /\ openCreateTokenModalLocal' = TRUE
  /\ UNCHANGED <<walletVars, homeVars, sendVars, dashVars, create_name, create_unit,
                 create_supply, create_loading, creates>>

\* part_001 line 82: the Close button calls onClose whatever loading is.
CloseCreateModal ==
  /\ openCreateTokenModalLocal
  /\ openCreateTokenModalLocal' = FALSE
  /\ UNCHANGED <<walletVars, homeVars, sendVars, dashVars, create_name, create_unit,
                 create_supply, create_loading, creates>>

\* part_001 lines 26-29: no wallet or no signer.
HandleCreateNoWallet(c) ==
  /\ FreeCreate(c)
  /\ activeAddress = NoAddress \/ ~transactionSigner
  /\ creates' = [creates EXCEPT ![c] =
                   [@ EXCEPT !.pc = "done", !.outcome = "noWallet",
                             !.notes = <<NoteConnectFirst>>]]
  /\ UNCHANGED <<walletVars, homeVars, sendVars, dashVars, openCreateTokenModalLocal,
                 create_name, create_unit, create_supply, create_loading>>

\* part_001 lines 31-46 (and 54-59 when BigInt(supply) throws before the call).
HandleCreateStart(c) ==
  /\ FreeCreate(c)
  /\ activeAddress # NoAddress /\ transactionSigner
  /\ IF BigIntOfStringThrows(create_supply)
     THEN /\ creates' = [creates EXCEPT ![c] =
                           [@ EXCEPT !.pc = "done", !.outcome = "failed",
                                     !.notes = <<NoteCreating, NoteCreateFailed>>]]
          /\ create_loading' = FALSE
     ELSE /\ creates' = [creates EXCEPT ![c] =
                           [@ EXCEPT !.pc = "create", !.calls = <<"assetCreate">>,
                                     !.notes = <<NoteCreating>>]]
          /\ create_loading' = TRUE
  /\ UNCHANGED <<walletVars, homeVars, sendVars, dashVars, openCreateTokenModalLocal,
                 create_name, create_unit, create_supply>>

\* part_001 lines 48-53 and 59: assetCreate resolved.
CreateResolves(c) ==
  /\ creates[c].pc = "create"
  /\ creates' = [creates EXCEPT ![c] =
                   [@ EXCEPT !.pc = "done", !.outcome = "created",
                             !.loadsBefore = LoadsStarted,
                             !.notes = Append(@, NoteCreated)]]
  /\ IF creates[c].alive
     THEN openCreateTokenModalLocal' = FALSE /\ create_loading' = FALSE
     ELSE UNCHANGED <<openCreateTokenModalLocal, create_loading>>
  /\ UNCHANGED <<walletVars, homeVars, sendVars, dashVars, create_name, create_unit, create_supply>>

\* The rejection handled with onClose() after the try/catch.
CreateRejectsClosing(c) ==
  /\ creates[c].pc = "create"
  /\ creates' = [creates EXCEPT ![c] =
                   [@ EXCEPT !.pc = "done", !.outcome = "failed",
                             !.notes = Append(@, NoteCreateFailed)]]
  /\ IF creates[c].alive
     THEN openCreateTokenModalLocal' = FALSE /\ create_loading' = FALSE
     ELSE UNCHANGED <<openCreateTokenModalLocal, create_loading>>
  /\ UNCHANGED <<walletVars, homeVars, sendVars, dashVars, create_name, create_unit, create_supply>>

\* part_001 lines 54-59: assetCreate rejected.
CreateRejects(c) ==
  /\ creates[c].pc = "create"
  /\ creates' = [creates EXCEPT ![c] =
                   [@ EXCEPT !.pc = "done", !.outcome = "failed",
                             !.notes = Append(@, NoteCreateFailed)]]
  /\ IF creates[c].alive THEN create_loading' = FALSE ELSE UNCHANGED create_loading
  /\ UNCHANGED <<walletVars, homeVars, sendVars, dashVars, openCreateTokenModalLocal,
                 create_name, create_unit, create_supply>>

(***************************************************************************)
(* Home (part_000)                                                         *)
(***************************************************************************)
Called(name) == homeCall' = [name |-> name, tick |-> 1 - homeCall.tick]

\* Lines 14-16: toggleWalletModal.
ToggleWalletModal == openWalletModal' = ~openWalletModal

\* Lines 18-20: toggleDemoModal.
ToggleDemoModal == openDemoModal' = ~openDemoModal

\* Line 36: the 'connect-wallet' button.
ClickConnectWallet ==
  /\ ToggleWalletModal
  /\ Called("connect-wallet")
  /\ UNCHANGED <<openDemoModal, walletVars, sendVars, dashVars, createVars>>

\* Line 51: ConnectWallet invokes its closeModal prop.
CloseModal ==
  /\ ToggleWalletModal
  /\ Called("closeModal")
  /\ UNCHANGED <<openDemoModal, walletVars, sendVars, dashVars, createVars>>

\* Lines 40-44: the 'transactions-demo' button, rendered with a wallet connected.
ClickTransactionsDemo ==
  /\ activeAddress # NoAddress
  /\ ToggleDemoModal
  /\ Called("transactions-demo")
  /\ UNCHANGED <<openWalletModal, walletVars, sendVars, dashVars, createVars>>

\* Line 52: Transact invokes its setModalState prop.
SetModalState(b) ==
  /\ openDemoModal' = b
  /\ Called("setModalState")
  /\ UNCHANGED <<openWalletModal, walletVars, sendVars, dashVars, createVars>>

(***************************************************************************)
(* Specifications.                                                         *)
(***************************************************************************)
\* useWallet(): the wallet connects or disconnects under the modal.
WalletChanges(addr, signer) ==
  /\ <<addr, signer>> # <<activeAddress, transactionSigner>>
  /\ activeAddress' = addr
  /\ transactionSigner' = signer
  /\ UNCHANGED <<homeVars, sendVars, dashVars, createVars>>

InitWallet == activeAddress = NoAddress /\ transactionSigner = FALSE

InitSend ==
  /\ send_assetId = ""
  /\ send_receiver = ""
  /\ send_amount = ""
  /\ send_loading = FALSE
  /\ openSendAssetModal = FALSE
  /\ sends = [r \in SendIds |-> IdleSend]

\* part_002 lines 40-45.
InitDash ==
  /\ algoBalance = Null
  /\ assets = <<>>
  /\ txns = <<>>
  /\ loading = FALSE
  /\ loads = [r \in LoadIds |-> IdleLoad]
  /\ openCreateTokenModalLocal = FALSE

\* part_001 lines 16-20.
InitCreate ==
  /\ create_name = "Dash Token"
  /\ create_unit = "DASH"
  /\ create_supply = "1000000"
  /\ create_loading = FALSE
  /\ creates = [c \in CreateIds |-> IdleCreate]

\* part_000 lines 11-12.
InitHome ==
  /\ openWalletModal = FALSE
  /\ openDemoModal = FALSE
  /\ homeCall = [name |-> "", tick |-> 0]

Init == InitWallet /\ InitHome /\ InitSend /\ InitDash /\ InitCreate /\ send_version = "retry"

InitPlain == InitWallet /\ InitHome /\ InitSend /\ InitDash /\ InitCreate /\ send_version = "plain"

\* What the user does with the modal's form and buttons.
SendModalInput ==
  \/ \E x \in AssetIdInputs : openSendAssetModal /\ SetAssetId(x)
  \/ \E x \in ReceiverInputs : openSendAssetModal /\ SetReceiver(x)
  \/ \E x \in AmountInputs : openSendAssetModal /\ SetAmount(x)
  \/ OpenSendModal
  \/ CloseSendModal
  \/ \E r \in SendIds : openSendAssetModal /\ HandleSendInvalid(r)

\* The steps of handleSend, retry version.
SendSteps ==
  \E r \in SendIds :
    \/ openSendAssetModal /\ HandleSendStart(r)
    \/ LookupThrows(r)
    \/ \E recvAssets \in ReceiverAssetLists :
         LookupNotOptedIn(r, recvAssets) \/ LookupOptedIn(r, recvAssets)
    \/ TransferResolves(r)
    \/ \E err \in Rejections : TransferRejects(r, err)
    \/ RetryTimerFires(r)

\* The steps of handleSend, plain version.
SendStepsPlain ==
  \E r \in SendIds :
    \/ openSendAssetModal /\ HandleSendPlain(r)
    \/ TransferResolves(r)
    \/ \E err \in Rejections : TransferRejects(r, err)

\* The wallet states a mounted modal can see.
WalletStates == {<<NoAddress, FALSE>>, <<"ADDR_A", FALSE>>, <<"ADDR_A", TRUE>>}

ModalWallet == \E w \in WalletStates : WalletChanges(w[1], w[2])

\* SendAssetModal (retry version) on its own, under any wallet state.
SpecSend == Init /\ [][SendModalInput \/ SendSteps \/ ModalWallet]_vars

\* Either version of SendAssetModal on its own, under any wallet state.
SpecSendAll ==
  /\ Init \/ InitPlain
  /\ [][SendModalInput \/ SendSteps \/ SendStepsPlain \/ ModalWallet]_vars

\* The receiver lookup, a transfer or the retry timer of invocation r settles.
SendSettles(r) ==
  \/ LookupThrows(r)
  \/ \E recvAssets \in ReceiverAssetLists :
       LookupNotOptedIn(r, recvAssets) \/ LookupOptedIn(r, recvAssets)
  \/ TransferResolves(r)
  \/ \E err \in Rejections : TransferRejects(r, err)
  \/ RetryTimerFires(r)

\* SendAssetModal (retry version) when every awaited call settles and the
\* timer fires; the user is never obliged to act.
SpecSendFair == SpecSend /\ \A r \in SendIds : WF_vars(SendSettles(r))

\* CreateTokenModal on its own, under any wallet state.
CreateModalInput ==
  \/ \E x \in NameInputs : openCreateTokenModalLocal /\ SetName(x)
  \/ \E x \in UnitInputs : openCreateTokenModalLocal /\ SetUnit(x)
  \/ \E x \in SupplyInputs : openCreateTokenModalLocal /\ SetSupply(x)
  \/ OpenCreateModal
  \/ CloseCreateModal

CreateSteps ==
  \E c \in CreateIds :
    \/ openCreateTokenModalLocal /\ HandleCreateNoWallet(c)
    \/ openCreateTokenModalLocal /\ HandleCreateStart(c)
    \/ CreateResolves(c)
    \/ CreateRejects(c)

SpecCreate == Init /\ [][CreateModalInput \/ CreateSteps \/ ModalWallet]_vars

\* The wallet as Home and the dashboard see it.
DashWallet ==
  \/ \E addr \in Addresses, r \in LoadIds : WalletConnect(addr, r)
  \/ \E addr \in Addresses, r \in LoadIds : WalletSwitch(addr, r)
  \/ WalletDisconnect

\* The steps of loadPortfolio, answered by the chain of the model.
LoadSteps(r) ==
  \/ AccountFails(r)
  \/ AccountReturns(r, AccountOf(loads[r].addr))
  \/ \E failed \in SUBSET (1..MaxAssets) : MetadataSettles(r, failed)
  \/ IndexerReturns(r, TransactionsOf(loads[r].addr))
  \/ IndexerFails(r)

\* PortfolioDashboard on its own under Home.
SpecLoad ==
  Init /\ [][DashWallet \/ (\E r \in LoadIds : Refresh(r) \/ LoadSteps(r))]_vars

\* What the user and the two modals of Home do with Home's callbacks.
HomeInput ==
  \/ ClickConnectWallet
  \/ CloseModal
  \/ ClickTransactionsDemo
  \/ \E b \in BOOLEAN : SetModalState(b)

\* Home with its dashboard.
SpecHome ==
  Init /\ [][HomeInput \/ DashWallet \/ (\E r \in LoadIds : Refresh(r) \/ LoadSteps(r))]_vars

\* The shapes one entry of acct.assets can take: the ID under 'asset-id' or
\* assetId, as number, numeric string or bigint, missing or not numeric; the
\* amount as number or bigint (one beyond 2^53), or absent.
HoldingShapes ==
  { Holding(id[1], id[2], amt[1], id[3], amt[2]) :
      id \in { <<Num(5), Undefined, 5>>, <<Str("7"), Undefined, 7>>,
               <<Undefined, Big(0, 5), 5>>, <<Undefined, Undefined, 0 - 1>>,
               <<Str("abc"), Undefined, 0 - 1>> },
      amt \in { <<Num(3), <<0, 3>>>>, <<Big(0, 3), <<0, 3>>>>,
                <<Big(1, 1), <<1, 1>>>>, <<Undefined, <<0, 0>>>> } }

AccountShapes ==
  {Account(Big(0, 3), FALSE, <<>>)}
    \cup {Account(Big(0, 3), TRUE, hs) :
            hs \in UNION {[1..n -> HoldingShapes] : n \in 0..MaxAssets}}

\* One load of the dashboard, the account response of any shape.
AssetsLoadSteps(r) ==
  \/ AccountFails(r)
  \/ \E acct \in AccountShapes : AccountReturns(r, acct)
  \/ \E failed \in SUBSET (1..MaxAssets) : MetadataSettles(r, failed)
  \/ IndexerReturns(r, TransactionsOf(loads[r].addr))
  \/ IndexerFails(r)

SpecAssets ==
  Init /\ [][\E r \in LoadIds :
               (\E addr \in Addresses : WalletConnect(addr, r)) \/ AssetsLoadSteps(r)]_vars

\* The shapes one indexer record can take: a payment or an asset transfer,
\* with its sub-object under either key or without it, the type under either
\* key and in either case, or another type.
TxnShapes ==
  { PayTxn,
    AxferTxn,
    [NoTxnFields EXCEPT !.tx_type = StrC(<<"p", "a", "y">>), !.amount = Num(5000000),
                        !.id = Str("TX3")],
    [NoTxnFields EXCEPT !.type = StrC(<<"P", "A", "Y">>),
                        !.payment = Obj(Undefined, Undefined, Big(0, 7)),
                        !.txid = Str("TX4")],
    [NoTxnFields EXCEPT !.payment_transaction = Obj(Undefined, Undefined, Num(1))],
    [NoTxnFields EXCEPT !.tx_type = StrC(<<"a", "x", "f", "e", "r">>),
                        !.amount = Num(250), !.id = Str("TX5")],
    [NoTxnFields EXCEPT !.transaction_type = StrC(<<"a", "x", "f", "e", "r">>),
                        !.asset_transfer = Obj(Undefined, Big(0, 7), Big(0, 4)),
                        !.round = Num(7)],
    [NoTxnFields EXCEPT !.tx_type = StrC(<<"k", "e", "y", "r", "e", "g">>),
                        !.id = Str("TX6")] }

TxResponses ==
  {TxResponse(FALSE, <<>>)}
    \cup {TxResponse(TRUE, ts) :
            ts \in UNION {[1..n -> TxnShapes] : n \in 0..MaxTxns}}

\* One load of the dashboard, the indexer response of any shape.
TxnLoadSteps(r) ==
  \/ AccountFails(r)
  \/ AccountReturns(r, AccountOf(loads[r].addr))
  \/ \E failed \in SUBSET (1..MaxAssets) : MetadataSettles(r, failed)
  \/ \E txRes \in TxResponses : IndexerReturns(r, txRes)
  \/ IndexerFails(r)

SpecTxn ==
  Init /\ [][\E r \in LoadIds :
               (\E addr \in Addresses : WalletConnect(addr, r)) \/ TxnLoadSteps(r)]_vars

\* Nothing is awaited: every handler that was started has returned.
Quiescent ==
  /\ \A r \in LoadIds : ~InFlight(loads[r])
  /\ \A r \in SendIds : ~InFlight(sends[r])
  /\ \A c \in CreateIds : ~InFlight(creates[c])

\* The whole page: Home with one wallet, the dashboard and its two modals,
\* and a user who lets each operation finish before starting the next one.
AppWallet ==
  \/ \E r \in LoadIds : WalletConnect("ADDR_B", r)
  \/ Quiescent /\ WalletDisconnect

\* What that user does on the mounted dashboard, a complete form at hand.
AppInput ==
  \/ \E r \in LoadIds : Quiescent /\ Refresh(r)
  \/ activeAddress # NoAddress /\ OpenSendModal
  \/ CloseSendModal
  \/ openSendAssetModal /\ SetAssetId("5")
  \/ openSendAssetModal /\ SetReceiver("RCVR")
  \/ openSendAssetModal /\ SetAmount("10")
  \/ \E r \in SendIds : openSendAssetModal /\ Quiescent /\ HandleSendInvalid(r)
  \/ \E r \in SendIds : openSendAssetModal /\ Quiescent /\ HandleSendStart(r)
  \/ activeAddress # NoAddress /\ OpenCreateModal
  \/ CloseCreateModal
  \/ \E x \in SupplyInputs : openCreateTokenModalLocal /\ SetSupply(x)
  \/ \E c \in CreateIds : openCreateTokenModalLocal /\ Quiescent /\ HandleCreateStart(c)

\* The requests of the page's handlers settle; the chain is up, the
\* receiver holds the asset and every signed transaction is accepted.
AppLoadSettles(r) ==
  \/ AccountReturns(r, AccountOf(loads[r].addr))
  \/ MetadataSettles(r, {})
  \/ IndexerReturns(r, TransactionsOf(loads[r].addr))
  \/ IndexerFails(r)

AppSendSettles(r) ==
  \/ LookupOptedIn(r, << Holding(Num(5), Undefined, Num(1), 5, <<0, 1>>) >>)
  \/ TransferResolves(r)

AppCreateSettles(c) == CreateResolves(c)

AppNext ==
  \/ AppWallet
  \/ AppInput
  \/ \E r \in LoadIds : AppLoadSettles(r)
  \/ \E r \in SendIds : AppSendSettles(r)
  \/ \E c \in CreateIds : AppCreateSettles(c)

SpecApp == Init /\ [][AppNext]_vars

\* Every request that was issued settles; the user is never obliged to act.
SpecAppFair ==
  /\ SpecApp
  /\ \A r \in LoadIds : WF_vars(AppLoadSettles(r))
  /\ \A r \in SendIds : WF_vars(AppSendSettles(r))
  /\ \A c \in CreateIds : WF_vars(AppCreateSettles(c))

(***************************************************************************)
(* Claims about handleSend.                                                *)
(***************************************************************************)
CountCalls(run, name) ==
  Cardinality({i \in 1..Len(run.calls) : run.calls[i] = name})

LastNote(run) == run.notes[Len(run.notes)]

FormFields == <<send_assetId, send_receiver, send_amount>>

\* C1: one invocation of handleSend (retry version) calls assetTransfer at
\* most twice, whatever the attempts' outcomes.
C1_AtMostTwoTransfers ==
  \A r \in SendIds : CountCalls(sends[r], "assetTransfer") <= 2

\* An invocation that did submit twice and is over.
C1_Witness ==
  \E r \in SendIds :
    /\ sends[r].pc = "done"
    /\ CountCalls(sends[r], "assetTransfer") = 2
    /\ sends[r].results = <<"dead", "dead">>

\* C2: a second attempt is made iff the first failed with a text that,
\* lower-cased, contains "txn dead"; a first failure of another kind and any
\* failure of the second attempt end in the outer failure handler, unretried.
C2_RetryIffTxnDead ==
  \A r \in SendIds :
    LET run == sends[r]
        n == CountCalls(run, "assetTransfer")
        firstDead == Len(run.results) >= 1 /\ run.results[1] \in {"dead", "dead+optin"}
    IN  /\ n >= 2 => firstDead
        /\ (firstDead /\ run.pc # "delay") => n = 2
        /\ (Len(run.results) >= 1 /\ run.results[1] \in {"optin", "other"}) =>
              /\ run.pc = "done" /\ run.outcome = "failed" /\ n = 1
              /\ LastNote(run) \in {NoteOptInFirst, NoteSendFailed}
        /\ (Len(run.results) >= 2 /\ run.results[2] # "ok") =>
              /\ run.pc = "done" /\ run.outcome = "failed" /\ n = 2
              /\ LastNote(run) \in {NoteOptInFirst, NoteSendFailed}

\* A retried invocation, and one whose first failure was not retried.
C2_Witness ==
  \E r, q \in SendIds :
    /\ sends[r].pc = "done" /\ sends[r].results = <<"dead", "dead">>
    /\ sends[q].pc = "done" /\ sends[q].results = <<"other">>

\* C3 (state part): assetTransfer is called only after the receiver lookup
\* returned a holding of the entered asset.
TransferOnlyIfHeld ==
  \A r \in SendIds :
    CountCalls(sends[r], "assetTransfer") > 0 => sends[r].lookup = "held"

\* C3 (step part): when the lookup throws or returns no such holding, the
\* handler warns and returns with loading false, the form fields and the
\* modal's open flag untouched, and nothing submitted.
LookupRefusalStep ==
  \A r \in SendIds :
    (sends[r].pc = "lookup" /\ sends'[r].lookup \in {"threw", "notHeld"}) =>
      /\ sends'[r].pc = "done"
      /\ LastNote(sends'[r])[1] = "warning"
      /\ Len(sends'[r].notes) = 1
      /\ CountCalls(sends'[r], "assetTransfer") = 0
      /\ send_loading' = FALSE
      /\ FormFields' = FormFields
      /\ openSendAssetModal' = openSendAssetModal

\* C3: tokens are sent only to opted-in addresses.
C3_OnlyToOptedIn == []TransferOnlyIfHeld /\ [][LookupRefusalStep]_vars

\* One invocation refused for a missing holding, one for a failed lookup.
C3_Witness ==
  \E r, q \in SendIds :
    /\ sends[r].pc = "done" /\ sends[r].lookup = "notHeld"
    /\ sends[q].pc = "done" /\ sends[q].lookup = "threw"

\* The inputs C4 names: no wallet or signer, an empty field, or an amount
\* whose Number() is <= 0.
InvalidInputs ==
  \/ activeAddress = NoAddress
  \/ ~transactionSigner
  \/ send_assetId = "" \/ send_receiver = "" \/ send_amount = ""
  \/ send_amount \in {"0", "-3"}

\* A click on Send: an unused invocation leaves "idle".
SendClicked(r) == sends[r].pc = "idle" /\ sends'[r].pc # "idle"

\* C4: on invalid inputs handleSend (either version) makes no network call,
\* shows exactly one warning and leaves loading, the form fields and the
\* modal's open flag as they were.
C4_ValidationStops ==
  [][\A r \in SendIds :
       (SendClicked(r) /\ InvalidInputs) =>
         /\ sends'[r].calls = <<>>
         /\ Len(sends'[r].notes) = 1
         /\ sends'[r].notes[1][1] = "warning"
         /\ send_loading' = send_loading
         /\ FormFields' = FormFields
         /\ openSendAssetModal' = openSendAssetModal]_vars

\* Clicks turned away for a non-positive amount and for a missing wallet.
C4_Witness ==
  \E r, q \in SendIds :
    /\ sends[r].outcome = "invalid" /\ sends[r].notes = <<NoteAmountPositive>>
    /\ sends[q].outcome = "invalid" /\ sends[q].notes = <<NoteConnectWallet>>

(***************************************************************************)
(* Claims about loadPortfolio.                                             *)
(***************************************************************************)
Range(seq) == {seq[i] : i \in 1..Len(seq)}

\* The record a holding must show: the chain's metadata, or the fallback
\* when its metadata request failed.
ExpectedHolding(asset, metaFailed) ==
  IF metaFailed
  THEN [assetId |-> asset.assetId, amount |-> asset.amount,
        decimals |-> Num(0), name |-> Str("Unknown"), unitName |-> Str("N/A")]
  ELSE [assetId |-> asset.assetId, amount |-> asset.amount,
        decimals |-> TrueMetadata(asset.assetId).decimals,
        name |-> TrueMetadata(asset.assetId).name,
        unitName |-> TrueMetadata(asset.assetId).unitName]

PastMetadata(run) == run.pc \in {"indexer", "done"} /\ run.outcome # "acctFailed"

MetadataTolerated ==
  \A r \in LoadIds :
    PastMetadata(loads[r]) =>
      /\ Len(loads[r].enriched) = Len(loads[r].raw)
      /\ \A i \in 1..Len(loads[r].raw) :
           loads[r].enriched[i] = ExpectedHolding(loads[r].raw[i], i \in loads[r].failed)
      /\ CountCalls(loads[r], "searchForTransactions") = 1
      /\ NotePortfolioError \notin Range(loads[r].notes)

MetadataStep ==
  \A r \in LoadIds :
    (loads[r].pc = "meta" /\ loads'[r].pc # "meta") =>
      /\ loads'[r].pc = "indexer"
      /\ loads[r].alive => assets' = loads'[r].enriched

\* C5: whatever subset of the getAssetByID requests fails, the load goes on:
\* the failed holdings appear with their assetId and amount and the fallback
\* metadata, the others with the chain's metadata, the indexer search is
\* issued and no 'Failed to load portfolio data' error is shown.
C5_MetadataFailureTolerated == []MetadataTolerated /\ [][MetadataStep]_vars

\* A load finished after the metadata of the first of two holdings failed.
C5_Witness ==
  \E r \in LoadIds :
    /\ loads[r].outcome = "loaded"
    /\ loads[r].alive
    /\ loads[r].failed = {1}
    /\ Len(loads[r].raw) = 2
    /\ assets = loads[r].enriched
    /\ assets[1].name = Str("Unknown")
    /\ assets[2].name = Str("Seven")

\* Ghost: the microAlgos an address holds.
TrueMicroAlgos(addr) == IF addr = "ADDR_A" THEN 3 ELSE 5000000

\* C8: when the indexer search throws, txns is left as it was, one warning
\* and no error is shown and loading becomes false; algoBalance and assets hold
\* what the run loaded (for a run no other run overlapped, the whole display
\* is the loaded balance and holdings with the transactions of before).
C8_IndexerFailureKeepsTxns ==
  [][\A r \in LoadIds :
       (loads[r].pc = "indexer" /\ loads'[r].outcome = "indexerFailed") =>
         /\ txns' = txns
         /\ loads'[r].notes = <<NoteIndexerWarning>>
         /\ loads[r].alive => ~loading'
         /\ (loads[r].alive /\ loads[r].alone) =>
              /\ algoBalance' = [t |-> "algo", micro |-> Num(TrueMicroAlgos(loads[r].addr))]
              /\ assets' = loads[r].enriched
              /\ txns' = loads[r].pre.txns]_vars

\* A refresh whose indexer search failed after an earlier load had filled txns.
C8_Witness ==
  \E r \in LoadIds :
    /\ loads[r].outcome = "indexerFailed"
    /\ loads[r].alive /\ loads[r].alone
    /\ txns # <<>>
    /\ assets = loads[r].enriched
    /\ ~loading

\* C9: when accountInformation throws, algoBalance, assets and txns are left
\* as they were before the load, accountInformation is the only request made,
\* one 'Failed to load portfolio data' error is shown and loading becomes false.
C9_AccountFailureKeepsState ==
  [][\A r \in LoadIds :
       (loads[r].pc = "acct" /\ loads'[r].outcome = "acctFailed") =>
         /\ UNCHANGED <<algoBalance, assets, txns>>
         /\ loads'[r].calls = <<"accountInformation">>
         /\ loads'[r].notes = <<NotePortfolioError>>
         /\ loads[r].alive => ~loading'
         /\ (loads[r].alive /\ loads[r].alone) =>
              [algoBalance |-> algoBalance', assets |-> assets', txns |-> txns']
                = loads[r].pre]_vars

\* A refresh whose accountInformation failed over a filled display.
C9_Witness ==
  \E r \in LoadIds :
    /\ loads[r].outcome = "acctFailed"
    /\ loads[r].alive /\ loads[r].alone
    /\ assets # <<>>
    /\ txns # <<>>
    /\ ~loading

\* The holdings of an account response as the chain holds them: one per
\* entry that carries an ID, in the order of the response.
ExpectedHoldings(acct) ==
  IF ~acct.hasAssets THEN <<>>
  ELSE SelectSeq(acct.assets, LAMBDA a : a.trueId >= 0)

\* The number x is the integer hi * 2^53 + v given as <<hi, v>>.
Denotes(x, int) == x.t = "number" /\ x.k = "int" /\ x.hi = int[1] /\ x.v = int[2]

Loaded(run) ==
  run.pc = "done" /\ run.outcome \in {"loaded", "indexerFailed"} /\ run.alive /\ run.alone

\* C6: after a load whose accountInformation succeeded, assets holds one
\* record per entry of the response that carries a numeric ID, in the order of
\* the response, with the entry's ID and the entry's amount.
C6_AllHoldingsShown ==
  \A r \in LoadIds :
    Loaded(loads[r]) =>
      LET expected == ExpectedHoldings(loads[r].acct)
      IN  /\ Len(assets) = Len(expected)
          /\ \A i \in 1..Len(expected) :
               /\ Denotes(assets[i].assetId, <<0, expected[i].trueId>>)
               /\ Denotes(assets[i].amount, expected[i].trueAmount)

\* C7: every mapped transaction of type 'ALGO' has decimals 6, so that
\* formatTxnAmount divides its amount by 10^6.
C7_AlgoDecimalsSix ==
  \A r \in LoadIds :
    (loads[r].pc = "done" /\ loads[r].outcome = "loaded" /\ loads[r].alive) =>
      \A i \in 1..Len(txns) :
        txns[i].type = TypeAlgo =>
          /\ txns[i].decimals = Num(6)
          /\ FormatTxnAmount(txns[i])[2] = Num(6)

(***************************************************************************)
(* Claims about the page as a whole.                                       *)
(***************************************************************************)
\* A load started since the handler succeeded, or none is due (the wallet
\* is gone) or none can be told (every invocation of the model is used).
ReloadedSince(n) ==
  \/ LoadsStarted > n
  \/ activeAddress = NoAddress
  \/ \A q \in LoadIds : loads[q].pc # "idle"

\* C10: once a transfer or a token creation succeeded on the mounted page, a
\* loadPortfolio is eventually started.
C10_ReloadAfterSuccess ==
  /\ \A r \in SendIds :
       (sends[r].outcome = "sent" /\ sends[r].alive) ~> ReloadedSince(sends[r].loadsBefore)
  /\ \A c \in CreateIds :
       (creates[c].outcome = "created" /\ creates[c].alive)
         ~> ReloadedSince(creates[c].loadsBefore)

\* The loadPortfolio invocations of the mounted dashboard still awaiting.
RunningLoads == {r \in LoadIds : InFlight(loads[r]) /\ loads[r].alive}

\* C11: at most one loadPortfolio run is in progress in a mounted dashboard.
C11_OneLoadAtATime == Cardinality(RunningLoads) <= 1

(***************************************************************************)
(* Further claims about handleSend.                                        *)
(***************************************************************************)
\* A step of invocation r in which an attempt resolved.
SendSucceeds(r) == sends[r].pc = "transfer" /\ sends'[r].outcome = "sent"

ClearedOnlyOnSuccess ==
  \A r \in SendIds :
    sends'[r] # sends[r] =>
      IF SendSucceeds(r)
      THEN /\ sends'[r].results[Len(sends'[r].results)] = "ok"
           /\ send_assetId' = "" /\ send_receiver' = "" /\ send_amount' = ""
           /\ ~openSendAssetModal'
      ELSE /\ UNCHANGED <<send_assetId, send_receiver, send_amount, openSendAssetModal>>
           /\ sends'[r].outcome # "sent"

LoopLeftBySuccessOrThrow ==
  \A r \in SendIds :
    /\ sends[r].outcome # "exhausted"
    /\ sends[r].outcome = "sent" <=> "ok" \in Range(sends[r].results)

\* C12: handleSend clears the three fields and calls onClose exactly in the
\* step in which an assetTransfer attempt resolved; every other step of the
\* handler leaves the fields and the modal as they are, and the retry loop is
\* never left without a success or a thrown error.
C12_ClearedIffSent == []LoopLeftBySuccessOrThrow /\ [][ClearedOnlyOnSuccess]_vars

\* A send that failed on its second attempt, the form still filled and open.
C12_Witness ==
  \E r \in SendIds :
    /\ sends[r].outcome = "failed"
    /\ Len(sends[r].results) = 2
    /\ send_assetId = "5" /\ send_receiver = "RCVR" /\ send_amount = "10"
    /\ openSendAssetModal

\* Invocation r has set loading to true and has not returned yet.
SendRunning(r) == sends[r].pc \in {"lookup", "transfer", "delay"}

\* The awaits an invocation can still go through before it returns.
Rank(run) ==
  CASE run.pc = "lookup" -> 2 * MaxAttempts + 1
    [] run.pc = "transfer" -> 2 * (MaxAttempts - run.attempt)
    [] run.pc = "delay" -> 2 * (MaxAttempts - run.attempt) - 1
    [] OTHER -> 0

\* Whatever a running invocation awaits can settle.
SendNeverStuck == \A r \in SendIds : SendRunning(r) => ENABLED SendSettles(r)

SendAdvances ==
  \A r \in SendIds :
    (SendRunning(r) /\ sends'[r] # sends[r]) =>
      /\ Rank(sends'[r]) < Rank(sends[r])
      /\ sends'[r].pc = "done" => ~send_loading'

\* The same as a liveness property of SpecSendFair.
SendEventuallyReturns == \A r \in SendIds : SendRunning(r) ~> (sends[r].pc = "done")

\* C13: every handleSend that set loading to true returns, with loading
\* false, provided each awaited call settles: what it awaits can always
\* settle, each settling brings it strictly closer to its return, and the
\* step in which it returns leaves loading false.
C13_SendReturns == []SendNeverStuck /\ [][SendAdvances]_vars

\* A send that returned after a retry, loading false.
C13_Witness ==
  \E r \in SendIds :
    /\ sends[r].pc = "done"
    /\ sends[r].attempt = 1
    /\ sends[r].outcome = "sent"
    /\ ~send_loading

\* The class of the error the outer handler received: that of the last
\* rejection, or of the conversion error when no attempt was submitted.
OuterErrorClass(run) ==
  IF run.results = <<>> THEN "other" ELSE run.results[Len(run.results)]

\* C14: a failure that reached the outer handler shows one terminal
\* notification and no success: the opt-in warning if the error text contains
\* 'must optin', else the error; 'Stale tx params detected' is shown once, only
\* by the retry version and only after a first 'txn dead' failure, before
\* the second attempt's outcome.
C14_OneTerminalNotification ==
  \A r \in SendIds :
    LET run == sends[r]
        n == Len(run.notes)
        firstDead == /\ send_version = "retry"
                     /\ Len(run.results) >= 1
                     /\ run.results[1] \in {"dead", "dead+optin"}
    IN  run.pc \notin {"idle", "lookup"} =>
          /\ run.outcome = "failed" =>
               /\ run.notes[n] = IF OuterErrorClass(run) \in {"optin", "dead+optin"}
                                 THEN NoteOptInFirst ELSE NoteSendFailed
               /\ \A i \in 1..(n - 1) :
                    run.notes[i] \notin {NoteOptInFirst, NoteSendFailed, NoteSent}
          /\ \A i \in 1..n : run.notes[i] = NoteStale => (i = 2 /\ firstDead)
          /\ firstDead => (n >= 2 /\ run.notes[2] = NoteStale)
          /\ (firstDead /\ n = 2) <=> run.pc \in {"delay", "transfer"} /\ Len(run.results) = 1 /\ firstDead

\* A retried send whose second attempt failed with 'must optin', and a send
\* that failed with 'Must OptIn'.
C14_Witness ==
  /\ \E r \in SendIds :
       /\ sends[r].outcome = "failed"
       /\ sends[r].results = <<"dead", "optin">>
       /\ sends[r].notes = <<NoteSending, NoteStale, NoteOptInFirst>>
  /\ \E r \in SendIds :
       /\ sends[r].outcome = "failed"
       /\ sends[r].results = <<"other">>
       /\ LastNote(sends[r]) = NoteSendFailed

(***************************************************************************)
(* Claims about handleCreate.                                              *)
(***************************************************************************)
CreateStep(c) ==
  LET before == creates[c]
      after == creates'[c]
      others == \E q \in CreateIds : q # c /\ InFlight(creates[q])
  IN  CASE after.outcome = "created" ->
             /\ before.pc = "create"
             /\ after.calls = <<"assetCreate">>
             /\ after.notes = <<NoteCreating, NoteCreated>>
             /\ ~openCreateTokenModalLocal'
             /\ ~create_loading'
        [] after.outcome = "noWallet" ->
             /\ after.calls = <<>>
             /\ after.notes = <<NoteConnectFirst>>
             /\ UNCHANGED <<openCreateTokenModalLocal, create_loading>>
             /\ ~others => ~create_loading'
        [] after.outcome = "failed" ->
             /\ after.notes = <<NoteCreating, NoteCreateFailed>>
             /\ UNCHANGED openCreateTokenModalLocal
             /\ ~create_loading'
        [] OTHER ->
             /\ after.pc = "create"
             /\ after.calls = <<"assetCreate">>
             /\ UNCHANGED openCreateTokenModalLocal

\* C15: handleCreate calls onClose exactly when assetCreate resolved; without
\* a wallet it calls nothing and leaves loading alone; when assetCreate or
\* BigInt(supply) throws it leaves the modal as it is and shows one 'Failed to
\* create token'; loading is false when a handler that set it returns.
C15_CloseIffCreated ==
  [][\A c \in CreateIds : creates'[c] # creates[c] => CreateStep(c)]_vars

\* A creation that was rejected, the modal still open, and nothing loading.
C15_Witness ==
  \E c \in CreateIds :
    /\ creates[c].outcome = "failed"
    /\ creates[c].calls = <<"assetCreate">>
    /\ openCreateTokenModalLocal
    /\ ~create_loading

(***************************************************************************)
(* Claims about the buttons of the send modal.                             *)
(***************************************************************************)
\* A handleSend invocation passes its validation and sets loading.
SendStarts(r) == sends[r].pc = "idle" /\ sends'[r].pc \in {"lookup", "transfer", "delay"}

\* C16: while a send is in progress (loading is true), activating Send does
\* not start a second handleSend run.
C16_NoSecondSend == [][\A r \in SendIds : SendStarts(r) => ~send_loading]_vars

\* C19: between the start of a handleSend run and its completion the send
\* modal is closed only by handleSend itself after a successful transfer,
\* never by the Close button.
C19_NoCloseWhileSending == [][(openSendAssetModal /\ ~openSendAssetModal' /\ \E r \in SendIds : SendRunning(r)) => \E r \in SendIds : SendSucceeds(r)]_vars

(***************************************************************************)
(* Claims about the dashboard and the active address.                      *)
(***************************************************************************)
\* C17: with a wallet connected and no load in flight, the balance displayed
\* is the one fetched for the active address, or the initial null.
C17_DisplayIsOfActiveAddress == (activeAddress # NoAddress /\ RunningLoads = {}) => algoBalance \in {Null, [t |-> "algo", micro |-> Num(TrueMicroAlgos(activeAddress))]}

\* The loadPortfolio invocations that were awaiting when the wallet disconnected.
InFlightAtDisconnect == {r \in LoadIds : ~loads[r].alive}

C20_CloseModalCloses ==
  [][/\ (homeCall' # homeCall /\ homeCall'.name = "closeModal") => ~openWalletModal'
     /\ (homeCall' # homeCall /\ homeCall'.name = "connect-wallet" /\ openWalletModal')
          => ~openWalletModal]_vars

====
